---- MODULE Spec2Model ----
(***************************************************************************)
(* Model of the token-migration backup worker:                             *)
(*   src/main/workerBackupData.ts  scanTokenMigratedEvents, main,         *)
(*                                 calculateProcessingStats, processEvent, *)
(*                                 validateAwsConfig                       *)
(*   src/unnamed/part_001          sendMessage (message.service)           *)
(*   src/services/sqs.service.ts   sendMessageToSQS and the signer         *)
(*                                                                         *)
(* The worker is one thread of control.  pc is the position of             *)
(* scanTokenMigratedEvents, spc the position of a sendMessage call.        *)
(* The chain node, the queue endpoint and the wall clock are the           *)
(* environment: their answers are nondeterministic choices.                *)
(***************************************************************************)
EXTENDS Integers, Sequences, FiniteSets, TLC

(* ------------------------------ bounds -------------------------------- *)
\* highest block number the chain reaches
MaxBlock == 4
\* largest START_BLOCK drawn
MaxStart == 1
\* largest SCAN_WITH_SPACE_BLOCK drawn
MaxWindow == 2
\* largest MAX_TRIES_BEFORE_RETRY drawn
MaxTriesBound == 3
\* most logs one log query returns
MaxEvents == 2
\* the count of consecutive failed log queries saturates here
MaxRetries == 2
\* seconds the wall clock advances during one run
MaxTicks == 1

Min(a, b) == IF a < b THEN a ELSE b

(* --------------------------- configuration ---------------------------- *)
\* src/main/workerBackupData.ts:214-220
VALID_AWS_REGIONS ==
    { "us-east-1", "us-east-2", "us-west-1", "us-west-2",
      "ap-south-1", "ap-northeast-1", "ap-northeast-2", "ap-northeast-3",
      "ap-southeast-1", "ap-southeast-2",
      "eu-central-1", "eu-west-1", "eu-west-2", "eu-west-3",
      "sa-east-1" }

\* A well-formed awsConfig (README.MD).  "" is the falsy string; hasAWS and
\* hasCREDENTIALS say whether the AWS and CREDENTIALS objects exist.
GoodConfig ==
    [ hasAWS |-> TRUE, REGION |-> "ap-southeast-1", hasCREDENTIALS |-> TRUE,
      ACCESS_KEY_ID |-> "AKID", SECRET_ACCESS_KEY |-> "SECRET",
      SQS_QUEUE_URL |-> "https://queue" ]

\* The configurations drawn: the good one and one per way of being wrong.
ConfigCases ==
    { GoodConfig,
      [GoodConfig EXCEPT !.hasAWS = FALSE],
      [GoodConfig EXCEPT !.REGION = ""],
      [GoodConfig EXCEPT !.REGION = "mars-north-1"],
      [GoodConfig EXCEPT !.hasCREDENTIALS = FALSE],
      [GoodConfig EXCEPT !.ACCESS_KEY_ID = ""],
      [GoodConfig EXCEPT !.SECRET_ACCESS_KEY = ""],
      [GoodConfig EXCEPT !.SQS_QUEUE_URL = ""] }

\* validateAwsConfig: "ok", or the code of the error it throws.
\* reachable: whether sqs.getQueueAttributes answers.
\* (variant: the allow-list test of line 239 left out)
validateAwsConfigNoAllowList(cfg, reachable) ==
    IF ~cfg.hasAWS THEN "CONFIG_NOT_FOUND"
    ELSE IF cfg.REGION = "" THEN "REGION_INVALID"
    ELSE IF ~cfg.hasCREDENTIALS \/ cfg.ACCESS_KEY_ID = ""
            \/ cfg.SECRET_ACCESS_KEY = "" THEN "CREDENTIALS_MISSING"
    ELSE IF cfg.SQS_QUEUE_URL = "" THEN "QUEUE_URL_MISSING"
    ELSE IF ~reachable THEN "AWS_SERVICE_ERROR"
    ELSE "ok"

validateAwsConfig(cfg, reachable) ==
    IF ~cfg.hasAWS THEN "CONFIG_NOT_FOUND"
    ELSE IF cfg.REGION = "" THEN "REGION_INVALID"
    ELSE IF cfg.REGION \notin VALID_AWS_REGIONS THEN "REGION_INVALID"
    ELSE IF ~cfg.hasCREDENTIALS \/ cfg.ACCESS_KEY_ID = ""
            \/ cfg.SECRET_ACCESS_KEY = "" THEN "CREDENTIALS_MISSING"
    ELSE IF cfg.SQS_QUEUE_URL = "" THEN "QUEUE_URL_MISSING"
    ELSE IF ~reachable THEN "AWS_SERVICE_ERROR"
    ELSE "ok"

\* The module-level sqsConfig literal reads awsConfig.AWS.REGION and
\* awsConfig.AWS.CREDENTIALS.ACCESS_KEY_ID when the module is loaded: a
\* missing AWS or CREDENTIALS object is a TypeError at load.
SqsConfigLoads(cfg) == cfg.hasAWS /\ cfg.hasCREDENTIALS

sqsConfig(cfg) ==
    [ method |-> "POST", service |-> "sqs", algorithm |-> "AWS4-HMAC-SHA256",
      host |-> <<"sqs.", cfg.REGION, ".amazonaws.com">>,
      target |-> "AmazonSQS.SendMessage",
      contentType |-> "application/x-amz-json-1.0",
      accessKey |-> cfg.ACCESS_KEY_ID, secretKey |-> cfg.SECRET_ACCESS_KEY,
      region |-> cfg.REGION ]

(* ------------------------------- signer ------------------------------- *)
\* Digests are symbolic: a digest is the tagged tuple of what was digested,
\* so two digests are equal exactly when their inputs are.
Sha256Hex(x) == <<"sha256", x>>
Hmac(key, msg) == <<"hmac", key, msg>>

\* JSON.stringify: the serialised text of a value, or "throws" for a value
\* JSON cannot carry (a BigInt, a circular structure).
Unserializable == { "BigInt", "Circular" }
JsonThrows(data) == data.kind \in Unserializable
JsonStringify(v) == <<"json", v>>

SecondsPerDay == 24 * 60 * 60
\* amzDate `YYYYMMDDThhmmssZ` of a clock reading in whole seconds: the
\* calendar day and the second of that day.
AmzDate(t) == [ day |-> t \div SecondsPerDay, hms |-> t % SecondsPerDay ]
\* amzDate.slice(0, 8)
DateStamp(amzDate) == amzDate.day

SignedHeaders == "content-type;host;x-amz-date;x-amz-target"

createCanonicalRequest(sc, method, host, payload, amzDate) ==
    << method, "/", "",
       <<"content-type:", sc.contentType, "host:", host,
         "x-amz-date:", amzDate, "x-amz-target:", sc.target>>,
       SignedHeaders,
       Sha256Hex(JsonStringify(payload)) >>

CredentialScope(sc, dateStamp) ==
    <<dateStamp, sc.region, sc.service, "aws4_request">>

createStringToSign(sc, amzDate, dateStamp, canonicalRequest) ==
    << sc.algorithm, amzDate, CredentialScope(sc, dateStamp),
       Sha256Hex(canonicalRequest) >>

getSignatureKey(key, dateStamp, regionName, serviceName) ==
    Hmac(Hmac(Hmac(Hmac(<<"AWS4", key>>, dateStamp), regionName), serviceName),
         "aws4_request")

calculateAuthParam(sc, dateStamp, stringToSign) ==
    [ algorithm |-> sc.algorithm,
      Credential |-> <<sc.accessKey, CredentialScope(sc, dateStamp)>>,
      SignedHeaders |-> SignedHeaders,
      Signature |-> Hmac(getSignatureKey(sc.secretKey, dateStamp, sc.region,
                                         sc.service),
                         stringToSign) ]

\* Lines 39-48 of sendMessageToSQS: the Authorization header for a payload
\* and a timestamp.
AuthorizationFor(sc, payload, amzDate) ==
    calculateAuthParam(sc, DateStamp(amzDate),
        createStringToSign(sc, amzDate, DateStamp(amzDate),
            createCanonicalRequest(sc, sc.method, sc.host, payload, amzDate)))

(* ------------------------------- state -------------------------------- *)
VARIABLES
    \* configuration and environment
    awsConfig,        \* the awsConfig object (config module)
    queueReachable,   \* whether sqs.getQueueAttributes answers
    CONSTANTS_,       \* START_BLOCK, SCAN_WITH_SPACE_BLOCK, MAX_TRIES_BEFORE_RETRY
    chainHead,        \* the chain's current block height
    clock,            \* wall clock, whole seconds
    \* scanTokenMigratedEvents
    pc, currentBlock, fromBlock, context, events, evIdx, stats,
    outcome,          \* the promise of scanTokenMigratedEvents
    exitCode,         \* the process's exit status, NoExit while it runs
    \* sendMessage / sendMessageToSQS
    spc, call, payload, amzDate, authorizationHeader, idx, sqsResult,
    \* history of what was done, read by the properties only
    headRead,         \* provider.getBlockNumber has been called
    lastQuery,        \* the last queryFilter call: its range and whether it answered
    failStreak,       \* failed queryFilter calls since the last one that answered
    attempted,        \* per log of the window: calls of processEvent for it
    posts,            \* HTTP POSTs of the current sendMessageToSQS call
    threw,            \* attempts of the current call that threw
    lastPost,         \* the last HTTP POST: what was sent, and when
    lastEvent,        \* the last log handled: how its delivery went, how it was counted
    headAtStart,      \* the chain height provider.getBlockNumber answered
    prevTo,           \* toBlock of the last window whose processing completed
    covered,          \* per block: answered log queries whose range holds it (0, 1, or 2 for more)
    handed            \* per log of the window: calls of sendMessage for it

scanVars == <<pc, currentBlock, fromBlock, context, events, evIdx, stats,
              outcome, exitCode>>
sendVars == <<spc, call, payload, amzDate, authorizationHeader, idx, sqsResult>>
histScan == <<headRead, lastQuery, failStreak, attempted, lastEvent>>
histSend == <<posts, threw, lastPost>>
histWin  == <<headAtStart, prevTo>>
histCover == <<covered, handed>>
envVars  == <<awsConfig, queueReachable, CONSTANTS_, chainHead>>
vars == <<envVars, clock, scanVars, sendVars, histScan, histSend, histWin,
          histCover>>

\* No log query has answered yet.
NotCovered == [ b \in 0..MaxBlock |-> 0 ]
\* line 56 answers for [from, to]: each block of the range is covered once more.
Cover(cov, from, to) ==
    [ b \in DOMAIN cov |->
        IF from <= b /\ b <= to THEN (IF cov[b] = 0 THEN 1 ELSE 2) ELSE cov[b] ]

NoExit == -1
NoBlock == -1
NoContext ==
    [ fromBlock |-> NoBlock, toBlock |-> 0, eventCount |-> 0,
      processedCount |-> 0, failedCount |-> 0 ]
NoStats ==
    [ successRate |-> 0, failureRate |-> 0, totalEvents |-> 0,
      successfulEvents |-> 0, failedEvents |-> 0 ]
NoCall ==
    [ messageEventType |-> "", objectData |-> [kind |-> "none"],
      transactionHash |-> NoBlock, transactionIndex |-> 0, logIndex |-> 0,
      blockNumber |-> NoBlock ]
NoPayload ==
    [ QueueUrl |-> "", MessageBody |-> <<>>, MessageGroupId |-> <<>>,
      MessageDeduplicationId |-> <<>> ]
NoDate == [ day |-> -1, hms |-> -1 ]
NoAuth == [ algorithm |-> "", Credential |-> <<>>, SignedHeaders |-> "",
            Signature |-> <<>> ]
NoQuery == [ fromBlock |-> NoBlock, toBlock |-> NoBlock, ok |-> FALSE ]
NoPost == [ sent |-> FALSE, attempt |-> -1, at |-> -1, xAmzDate |-> NoDate,
            authorization |-> NoAuth, body |-> <<>> ]
NoEvent == [ handled |-> FALSE, failure |-> "none", exhausted |-> FALSE,
             countedAs |-> "none" ]

ClockStart == SecondsPerDay - 1

InitSend ==
    /\ call = NoCall /\ payload = NoPayload /\ amzDate = NoDate
    /\ authorizationHeader = NoAuth /\ idx = 0 /\ sqsResult = "pending"
    /\ posts = 0 /\ threw = 0 /\ lastPost = NoPost

\* A call of sendMessage has ended: its locals are gone.
SendReset ==
    /\ call' = NoCall /\ payload' = NoPayload /\ amzDate' = NoDate
    /\ authorizationHeader' = NoAuth /\ idx' = 0 /\ sqsResult' = "pending"
    /\ posts' = 0 /\ threw' = 0 /\ lastPost' = NoPost

Init ==
    /\ awsConfig \in ConfigCases
    /\ queueReachable \in BOOLEAN
    /\ CONSTANTS_ \in [ START_BLOCK : 0..MaxStart,
                        SCAN_WITH_SPACE_BLOCK : 0..MaxWindow,
                        MAX_TRIES_BEFORE_RETRY : 0..MaxTriesBound ]
    /\ chainHead \in 0..MaxBlock
    /\ clock = ClockStart
    /\ pc = "Load" /\ currentBlock = NoBlock /\ fromBlock = NoBlock
    /\ context = NoContext /\ events = <<>> /\ evIdx = 0 /\ stats = NoStats
    /\ outcome = "pending" /\ exitCode = NoExit
    /\ spc = "idle" /\ InitSend
    /\ headRead = FALSE /\ lastQuery = NoQuery /\ failStreak = 0
    /\ attempted = <<>> /\ lastEvent = NoEvent
    /\ headAtStart = NoBlock /\ prevTo = NoBlock
    /\ covered = NotCovered /\ handed = <<>>

(* ------------------- sendMessage / sendMessageToSQS ------------------- *)
MAX_TRIES == CONSTANTS_.MAX_TRIES_BEFORE_RETRY

\* part_001:21-28, the serialised message body
MessageBody(c) ==
    JsonStringify([ type |-> c.messageEventType, msg |-> c.objectData,
                    txHash |-> c.transactionHash, txIndex |-> c.transactionIndex,
                    logIndex |-> c.logIndex, blockNumber |-> c.blockNumber ])

\* (variant: the block number is part of the identifier)
MessageIdWithBlock(c) ==
    <<c.transactionHash, "/", c.transactionIndex, "/", c.logIndex, "/", c.blockNumber>>

\* part_001:50-51, `${transactionHash}/${transactionIndex}/${logIndex}`
MessageId(c) == <<c.transactionHash, "/", c.transactionIndex, "/", c.logIndex>>

\* part_001:47-52
Payload(c) ==
    [ QueueUrl |-> awsConfig.SQS_QUEUE_URL, MessageBody |-> MessageBody(c),
      MessageGroupId |-> MessageId(c), MessageDeduplicationId |-> MessageId(c) ]

\* How one attempt's fetch / res.json() can end: the request fails, the
\* response has no decodable body, or a body is decoded (any HTTP status).
FetchOutcomes == { "network_error", "undecodable", "http200", "http500" }
Decoded(o) == o \in { "http200", "http500" }

\* (variant: the loop bound of line 51 off by one)
LoopContinuesOffByOne(i) == i <= MAX_TRIES

\* line 51: idx < MAX_TRIES
LoopContinues(i) == i < MAX_TRIES

\* sendMessage, lines 13-28: JSON.stringify(message) runs before the try, so
\* what it throws leaves sendMessage.
SendMessage ==
    /\ spc = "sendMessage"
    /\ IF JsonThrows(call.objectData)
         THEN /\ spc' = "threw"
              /\ UNCHANGED <<payload, amzDate, authorizationHeader, idx, sqsResult>>
              /\ UNCHANGED histSend
         ELSE \* lines 30-55: build the payload and call sendMessageToSQS,
              \* whose lines 29-50 read the clock once and sign once
              /\ payload' = Payload(call)
              /\ amzDate' = AmzDate(clock)
              /\ authorizationHeader' =
                     AuthorizationFor(sqsConfig(awsConfig), Payload(call), AmzDate(clock))
              /\ idx' = 0
              /\ posts' = 0 /\ threw' = 0 /\ lastPost' = NoPost
              /\ IF LoopContinues(0)
                   THEN spc' = "fetch" /\ sqsResult' = "pending"
                   ELSE spc' = "returned" /\ sqsResult' = "nothing"
    /\ UNCHANGED <<call, clock, envVars, scanVars, histScan>>
    /\ UNCHANGED <<histWin, histCover>>

\* (variant: each attempt stamps its request with the time of sending)
RequestFreshDate ==
    [ sent |-> TRUE, attempt |-> idx, at |-> clock, xAmzDate |-> AmzDate(clock),
      authorization |-> authorizationHeader, body |-> JsonStringify(payload) ]

\* The request of one attempt, lines 53-62.
Request ==
    [ sent |-> TRUE, attempt |-> idx, at |-> clock, xAmzDate |-> amzDate,
      authorization |-> authorizationHeader, body |-> JsonStringify(payload) ]

\* One iteration of the retry loop, lines 51-73.  A decoded body is returned
\* (line 63), whatever follows in sendMessage (lines 57-62) only logs.  A
\* throw is logged; the loop waits and goes on while idx < MAX_TRIES - 1, and
\* after the last attempt sendMessageToSQS returns undefined, which
\* sendMessage does not look at.
Fetch ==
    /\ spc = "fetch"
    /\ \E o \in FetchOutcomes :
         /\ posts' = posts + 1
         /\ lastPost' = Request
         /\ IF Decoded(o)
              THEN /\ sqsResult' = o
                   /\ spc' = "returned"
                   /\ UNCHANGED <<idx, threw>>
              ELSE /\ threw' = threw + 1
                   /\ IF idx < MAX_TRIES - 1
                        THEN /\ spc' = "retryWait"
                             /\ UNCHANGED <<idx, sqsResult>>
                        ELSE /\ idx' = idx + 1
                             /\ IF LoopContinues(idx + 1)
                                  THEN spc' = "fetch" /\ sqsResult' = "pending"
                                  ELSE spc' = "returned" /\ sqsResult' = "nothing"
    /\ UNCHANGED <<call, payload, amzDate, authorizationHeader>>
    /\ UNCHANGED <<clock, envVars, scanVars, histScan>>
    /\ UNCHANGED <<histWin, histCover>>

\* lines 69-71 and the loop's idx++: the wait is over, the next attempt starts.
RetryNext ==
    /\ spc = "retryWait"
    /\ idx' = idx + 1
    /\ spc' = IF LoopContinues(idx + 1) THEN "fetch" ELSE "returned"
    /\ sqsResult' = IF LoopContinues(idx + 1) THEN "pending" ELSE "nothing"
    /\ UNCHANGED <<call, payload, amzDate, authorizationHeader>>
    /\ UNCHANGED <<clock, envVars, scanVars, histScan, histSend>>
    /\ UNCHANGED <<histWin, histCover>>

\* The wall clock advances.  Only sendMessageToSQS reads it (line 29), so
\* time passes in the model where that matters: before the call reads the
\* clock and during the wait between two attempts.
Tick ==
    /\ spc \in { "sendMessage", "retryWait" }
    /\ clock < ClockStart + MaxTicks
    /\ clock' = clock + 1
    /\ UNCHANGED <<envVars, scanVars, sendVars, histScan, histSend>>
    /\ UNCHANGED <<histWin, histCover>>

(* ---------------------- scanTokenMigratedEvents ----------------------- *)
START_BLOCK == CONSTANTS_.START_BLOCK
SCAN_WITH_SPACE_BLOCK == CONSTANTS_.SCAN_WITH_SPACE_BLOCK

sendIdle == UNCHANGED <<sendVars, histSend>>

\* Loading the program evaluates the sqsConfig literal (sqs.service.ts:7-21).
\* When that throws, the process dies of the uncaught error, status 1.
LoadModules ==
    /\ pc = "Load"
    /\ IF SqsConfigLoads(awsConfig)
         THEN pc' = "Start" /\ UNCHANGED <<outcome, exitCode>>
         ELSE pc' = "Crashed" /\ outcome' = "none" /\ exitCode' = 1
    /\ UNCHANGED <<currentBlock, fromBlock, context, events, evIdx, stats>>
    /\ UNCHANGED <<envVars, clock, histScan>> /\ sendIdle
    /\ UNCHANGED <<histWin, histCover>>

\* lines 15-24: validateAwsConfig; on its error, log and return.
Configure ==
    /\ pc = "Start"
    /\ IF validateAwsConfig(awsConfig, queueReachable) = "ok"
         THEN pc' = "ReadHead" /\ UNCHANGED outcome
         ELSE pc' = "ConfigStopped" /\ outcome' = "resolved"
    /\ UNCHANGED <<currentBlock, fromBlock, context, events, evIdx, stats, exitCode>>
    /\ UNCHANGED <<envVars, clock, histScan>> /\ sendIdle
    /\ UNCHANGED <<histWin, histCover>>

\* lines 26-37: the provider answers getBlockNumber.
ReadHead ==
    /\ pc = "ReadHead"
    /\ currentBlock' = chainHead
    /\ fromBlock' = START_BLOCK
    /\ headRead' = TRUE
    /\ headAtStart' = chainHead /\ UNCHANGED prevTo
    /\ pc' = "LoopHead"
    /\ UNCHANGED <<context, events, evIdx, stats, outcome, exitCode>>
    /\ UNCHANGED histCover
    /\ UNCHANGED <<envVars, clock, lastQuery, failStreak, attempted, lastEvent>>
    /\ sendIdle

\* (variant: the catch of line 106 logs and does not throw)
ScannerFailedSwallowed == "resolved"
\* lines 106-115: the error is logged and thrown again (line 114), so the
\* promise of scanTokenMigratedEvents is rejected.
ScannerFailed == "rejected"

\* lines 26-28 throw (the provider does not answer): caught at line 106,
\* logged and thrown again at line 114.
ReadHeadFails ==
    /\ pc = "ReadHead"
    /\ headRead' = TRUE
    /\ pc' = "Faulted" /\ outcome' = ScannerFailed
    /\ UNCHANGED <<currentBlock, fromBlock, context, events, evIdx, stats, exitCode>>
    /\ UNCHANGED <<envVars, clock, lastQuery, failStreak, attempted, lastEvent>>
    /\ sendIdle
    /\ UNCHANGED <<histWin, histCover>>

\* (variant: the chain height is read again in every iteration)
LoopBoundReread == chainHead
\* lines 39, 51: the loop test and toBlock use currentBlock, the constant
\* of line 28.
LoopBound == currentBlock

\* (variant: toBlock is not capped by the chain height)
ToBlockUncapped(from, size, head) == from + size
\* (variant: toBlock is the first block after the window)
ToBlockExclusive(from, size, head) == Min(from + size, head) - 1
\* lines 49-52
ToBlock(from, size, head) == Min(from + size, head)

\* lines 39-54: the loop test holds; a fresh context, and toBlock.
BeginWindow ==
    /\ pc = "LoopHead"
    /\ fromBlock < LoopBound
    /\ context' = [ fromBlock |-> fromBlock,
                    toBlock |-> ToBlock(fromBlock, SCAN_WITH_SPACE_BLOCK, LoopBound),
                    eventCount |-> 0, processedCount |-> 0, failedCount |-> 0 ]
    /\ pc' = "Query"
    /\ UNCHANGED <<currentBlock, fromBlock, events, evIdx, stats, outcome, exitCode>>
    /\ UNCHANGED <<envVars, clock, histScan>> /\ sendIdle
    /\ UNCHANGED <<histWin, histCover>>

\* lines 39, 102-105: the loop test fails; the scan is complete.
Complete ==
    /\ pc = "LoopHead"
    /\ ~(fromBlock < LoopBound)
    /\ pc' = "Completed" /\ outcome' = "resolved"
    /\ UNCHANGED <<currentBlock, fromBlock, context, events, evIdx, stats, exitCode>>
    /\ UNCHANGED <<envVars, clock, histScan>> /\ sendIdle
    /\ UNCHANGED <<histWin, histCover>>

\* The logs a query of [from, to] returns, n of them, in the node's order.
\* A log is known by its block and its position.
Logs(from, to, n) ==
    [ i \in 1..n |->
        [ blockNumber |-> Min(from + i - 1, to),
          transactionHash |-> Min(from + i - 1, to),
          transactionIndex |-> 0, logIndex |-> i - 1 ] ]

\* lines 56-61: queryFilter answers with n logs.
QueryOk ==
    /\ pc = "Query"
    /\ \E n \in 0..MaxEvents :
         /\ events' = Logs(context.fromBlock, context.toBlock, n)
         /\ context' = [context EXCEPT !.eventCount = n]
         /\ attempted' = [ i \in 1..n |-> 0 ]
         /\ handed' = [ i \in 1..n |-> 0 ]
    /\ evIdx' = 1
    /\ lastQuery' = [ fromBlock |-> context.fromBlock, toBlock |-> context.toBlock,
                      ok |-> TRUE ]
    /\ failStreak' = 0
    /\ pc' = "Events"
    /\ UNCHANGED <<currentBlock, fromBlock, stats, outcome, exitCode>>
    /\ UNCHANGED <<envVars, clock, headRead, lastEvent>> /\ sendIdle
    /\ UNCHANGED histWin
    /\ covered' = Cover(covered, context.fromBlock, context.toBlock)

\* (variant: a failed window is skipped)
AfterRangeErrorSkips(from, to) == to + 1
\* lines 92-99: the catch of a window's error leaves fromBlock as it is.
AfterRangeError(from, to) == from

\* (variant: the catch of a window's error throws it on)
RangeErrorRethrown == "Faulted"
\* lines 92-99 end without a throw or a break: the while loop goes on.
RangeErrorLeadsTo == "LoopHead"

\* line 56 throws: lines 92-99 log, wait twice the delay, and loop; the
\* iteration's context is gone.
QueryFails ==
    /\ pc = "Query"
    /\ lastQuery' = [ fromBlock |-> context.fromBlock, toBlock |-> context.toBlock,
                      ok |-> FALSE ]
    /\ failStreak' = Min(failStreak + 1, MaxRetries)
    /\ fromBlock' = AfterRangeError(fromBlock, context.toBlock)
    /\ pc' = RangeErrorLeadsTo
    /\ context' = NoContext
    /\ UNCHANGED <<currentBlock, events, evIdx, stats, outcome, exitCode>>
    /\ UNCHANGED <<envVars, clock, headRead, attempted, lastEvent>> /\ sendIdle
    /\ UNCHANGED <<histWin, histCover>>

\* (variant: the catch of line 67 does not count)
CountFailedForgotten(ctx) == ctx
\* (variant: a failed event is counted as processed too)
CountFailedAndProcessed(ctx) ==
    [ctx EXCEPT !.failedCount = @ + 1, !.processedCount = @ + 1]
\* line 68
CountFailed(ctx) == [ctx EXCEPT !.failedCount = @ + 1]
\* line 66
CountProcessed(ctx) == [ctx EXCEPT !.processedCount = @ + 1]

\* (variant: an event's error ends the for loop)
AfterEventErrorBreaks(i, n) == n + 1
\* lines 67-77: the catch is inside the for body, the loop goes to the next log.
AfterEventError(i, n) == i + 1

\* How an event was counted, read off the counters.
CountedAs(old, new) ==
    IF new.failedCount > old.failedCount THEN "failed"
    ELSE IF new.processedCount > old.processedCount THEN "processed"
    ELSE "none"

\* processEvent up to its call of sendMessage (lines 180-196), as the
\* environment decides it: event.args is missing (line 185 throws),
\* provider.getBlock fails or returns null (lines 187, 193 throw), or the
\* migration data is built.
TransformOutcomes == { "no_args", "no_block", "ok" }

\* lines 188-195; the amounts and the timestamp play no part in the flow.
MigrationData(e) == [ kind |-> "object", transactionHash |-> e.transactionHash ]

\* lines 63-65 and processEvent: the next log of the window.  A throw before
\* sendMessage is caught at line 67.
ProcessEvent ==
    /\ pc = "Events"
    /\ evIdx <= Len(events)
    /\ attempted' = [attempted EXCEPT ![evIdx] = @ + 1]
    /\ \E o \in TransformOutcomes :
         IF o = "ok"
           THEN /\ call' = [ messageEventType |-> "TokenMigrated",
                             objectData |-> MigrationData(events[evIdx]),
                             transactionHash |-> events[evIdx].transactionHash,
                             transactionIndex |-> events[evIdx].transactionIndex,
                             logIndex |-> events[evIdx].logIndex,
                             blockNumber |-> events[evIdx].blockNumber ]
                /\ spc' = "sendMessage"
                /\ handed' = [handed EXCEPT ![evIdx] = @ + 1]
                /\ pc' = "AwaitSend"
                /\ UNCHANGED <<context, evIdx, lastEvent>>
           ELSE /\ context' = CountFailed(context)
                /\ evIdx' = AfterEventError(evIdx, Len(events))
                /\ lastEvent' = [ handled |-> TRUE, failure |-> o, exhausted |-> FALSE,
                                  countedAs |-> CountedAs(context, context') ]
                /\ UNCHANGED <<pc, call, spc, handed>>
    /\ UNCHANGED <<payload, amzDate, authorizationHeader, idx, sqsResult>>
    /\ UNCHANGED <<currentBlock, fromBlock, events, stats, outcome, exitCode>>
    /\ UNCHANGED <<envVars, clock, headRead, lastQuery, failStreak, histSend>>
    /\ UNCHANGED <<histWin, covered>>

\* Every attempt of the delivery threw and the call gave up.
Exhausted == sqsResult = "nothing" /\ posts > 0 /\ threw = posts

\* sendMessage has ended: processEvent returns and line 66 counts the event,
\* or sendMessage threw and lines 67-77 count the failure.  The locals of
\* the ended call are gone.
EventReturns ==
    /\ pc = "AwaitSend"
    /\ spc \in { "returned", "threw" }
    /\ IF spc = "returned"
         THEN /\ context' = CountProcessed(context)
              /\ evIdx' = evIdx + 1
         ELSE /\ context' = CountFailed(context)
              /\ evIdx' = AfterEventError(evIdx, Len(events))
    /\ lastEvent' = [ handled |-> TRUE,
                      failure |-> IF spc = "threw" THEN "publish_threw" ELSE "none",
                      exhausted |-> (spc = "returned" /\ Exhausted),
                      countedAs |-> CountedAs(context, context') ]
    /\ spc' = "idle" /\ SendReset
    /\ pc' = "Events"
    /\ UNCHANGED <<currentBlock, fromBlock, events, stats, outcome, exitCode>>
    /\ UNCHANGED <<envVars, clock, headRead, lastQuery, failStreak, attempted>>
    /\ UNCHANGED <<histWin, histCover>>

\* (a / b) * 100 with toFixed(2), in hundredths of a percent: the nearest
\* hundredth, the larger one on a tie (toFixed picks the larger n).  This
\* is what the floating-point computation gives for b < 160: a * 10000 / b
\* is half-way between two hundredths only when b in lowest terms is 32,
\* and then a / b and its product with 100 are exact in binary.
ToFixed2(a, b) == (a * 20000 + b) \div (2 * b)

\* (variant: no test of eventCount; 0 / 0 is NaN and the rate reads "NaN%",
\* which is written -1 here)
calculateProcessingStatsUnguarded(ctx) ==
    [ successRate |-> IF ctx.eventCount = 0 THEN -1
                      ELSE ToFixed2(ctx.processedCount, ctx.eventCount),
      failureRate |-> IF ctx.eventCount = 0 THEN -1
                      ELSE ToFixed2(ctx.failedCount, ctx.eventCount),
      totalEvents |-> ctx.eventCount,
      successfulEvents |-> ctx.processedCount,
      failedEvents |-> ctx.failedCount ]

\* lines 161-174
calculateProcessingStats(ctx) ==
    [ successRate |-> IF ctx.eventCount = 0 THEN 0
                      ELSE ToFixed2(ctx.processedCount, ctx.eventCount),
      failureRate |-> IF ctx.eventCount = 0 THEN 0
                      ELSE ToFixed2(ctx.failedCount, ctx.eventCount),
      totalEvents |-> ctx.eventCount,
      successfulEvents |-> ctx.processedCount,
      failedEvents |-> ctx.failedCount ]

\* (variant: the next window starts on the block the last one ended on)
AfterWindowOverlaps(to) == to
\* line 90
AfterWindow(to) == to + 1

\* lines 80-90: the for loop is over; stats, and fromBlock moves on.
FinishWindow ==
    /\ pc = "Events"
    /\ evIdx > Len(events)
    /\ stats' = calculateProcessingStats(context)
    /\ fromBlock' = AfterWindow(context.toBlock)
    /\ prevTo' = context.toBlock /\ UNCHANGED headAtStart
    /\ pc' = "Pacing"
    /\ UNCHANGED <<currentBlock, context, events, evIdx, outcome, exitCode>>
    /\ UNCHANGED histCover
    /\ UNCHANGED <<envVars, clock, histScan>> /\ sendIdle

\* line 91: the delay between two windows is over, and with it the
\* iteration: its context, events and stats are gone.
Pace ==
    /\ pc = "Pacing"
    /\ pc' = "LoopHead"
    /\ context' = NoContext /\ events' = <<>> /\ evIdx' = 0 /\ stats' = NoStats
    /\ attempted' = <<>> /\ lastEvent' = NoEvent
    /\ UNCHANGED <<currentBlock, fromBlock, outcome, exitCode>>
    /\ UNCHANGED <<envVars, clock, headRead, lastQuery, failStreak>> /\ sendIdle
    /\ handed' = <<>>
    /\ UNCHANGED <<histWin, covered>>

\* The chain grows while the worker waits for the node or for its delay.
NewBlock ==
    /\ pc \in { "Query", "Pacing" }
    /\ chainHead < MaxBlock
    /\ chainHead' = chainHead + 1
    /\ UNCHANGED <<awsConfig, queueReachable, CONSTANTS_>>
    /\ UNCHANGED <<clock, scanVars, histScan>> /\ sendIdle
    /\ UNCHANGED <<histWin, histCover>>

\* lines 122-132: a rejected promise ends the process with status 1; after
\* a fulfilled one the process ends by itself, status 0.
MainExit ==
    /\ pc \in { "Completed", "ConfigStopped", "Faulted" }
    /\ exitCode = NoExit
    /\ exitCode' = IF outcome = "rejected" THEN 1 ELSE 0
    /\ UNCHANGED <<pc, currentBlock, fromBlock, context, events, evIdx, stats, outcome>>
    /\ UNCHANGED <<envVars, clock, histScan>> /\ sendIdle
    /\ UNCHANGED <<histWin, histCover>>

Next ==
    \/ LoadModules \/ Configure \/ ReadHead \/ ReadHeadFails
    \/ BeginWindow \/ Complete \/ QueryOk \/ QueryFails
    \/ ProcessEvent \/ EventReturns \/ FinishWindow \/ Pace
    \/ SendMessage \/ Fetch \/ RetryNext \/ Tick
    \/ NewBlock \/ MainExit

Spec == Init /\ [][Next]_vars

\* The steps of the worker once it scans.  Each is the continuation of an
\* await (a timer, a fetch, a call of the node), which the event loop runs
\* when the awaited promise settles.
ScanStep ==
    \/ BeginWindow \/ Complete \/ ProcessEvent \/ EventReturns
    \/ FinishWindow \/ Pace \/ SendMessage \/ Fetch \/ RetryNext

\* Every awaited promise settles, and the log query of a window that is
\* asked again and again (lines 92-99 loop back to line 56) answers in the end.
\* delivery attempts per message in the runs checked for termination
MaxFairTries == 2

\* The runs the termination property is about: the configuration is valid
\* and the queue answers; a delivery is attempted MaxFairTries times before
\* it is given up.
InitFair ==
    /\ Init
    /\ awsConfig = GoodConfig /\ queueReachable
    /\ CONSTANTS_.MAX_TRIES_BEFORE_RETRY = MaxFairTries

SpecFair == InitFair /\ [][Next]_vars /\ WF_vars(ScanStep) /\ SF_vars(QueryOk)

(* ------------- windows with more logs than a full run draws ----------- *)
\* most logs of a window whose statistics are computed
MaxStatEvents == 32

\* The for loop of a window is over: its query returned n logs, p of them
\* were processed and the others failed.  fromBlock, toBlock and the chain
\* height play no part in the statistics.
InitStats ==
    /\ awsConfig = GoodConfig
    /\ queueReachable = TRUE
    /\ CONSTANTS_ = [ START_BLOCK |-> 0, SCAN_WITH_SPACE_BLOCK |-> 0,
                      MAX_TRIES_BEFORE_RETRY |-> 1 ]
    /\ chainHead = 1
    /\ clock = ClockStart
    /\ pc = "Events" /\ currentBlock = 1 /\ fromBlock = 0
    /\ \E n \in 0..MaxStatEvents : \E p \in 0..n :
          /\ context = [ fromBlock |-> 0, toBlock |-> 0, eventCount |-> n,
                         processedCount |-> p, failedCount |-> n - p ]
          /\ events = Logs(0, 0, n)
          /\ evIdx = n + 1
          /\ attempted = [ i \in 1..n |-> 1 ]
          /\ handed = [ i \in 1..n |-> IF i <= p THEN 1 ELSE 0 ]
    /\ stats = NoStats
    /\ outcome = "pending" /\ exitCode = NoExit
    /\ spc = "idle" /\ InitSend
    /\ headRead = TRUE
    /\ lastQuery = [ fromBlock |-> 0, toBlock |-> 0, ok |-> TRUE ]
    /\ failStreak = 0 /\ lastEvent = NoEvent
    /\ headAtStart = 1 /\ prevTo = NoBlock
    /\ covered = Cover(NotCovered, 0, 0)

NextStats == FinishWindow

SpecStats == InitStats /\ [][NextStats]_vars

(* ---------------- sendMessage called on its own inputs ---------------- *)
\* The values a caller can pass as objectData: plain data, and values
\* JSON.stringify throws on.
DataKinds == { "object" } \cup Unserializable

\* part_001:13-19, the arguments of sendMessage
PublishCalls ==
    [ messageEventType : { "TokenMigrated", "Trade" },
      objectData : [ kind : DataKinds, transactionHash : 0..1 ],
      transactionHash : 0..1, transactionIndex : 0..1,
      logIndex : 0..1, blockNumber : 0..MaxBlock ]

\* sendMessage as an exported function, called once with any arguments.
InitPublish ==
    /\ awsConfig = GoodConfig
    /\ queueReachable = TRUE
    /\ CONSTANTS_ \in [ START_BLOCK : {0}, SCAN_WITH_SPACE_BLOCK : {0},
                        MAX_TRIES_BEFORE_RETRY : 0..MaxTriesBound ]
    /\ chainHead = 0
    /\ clock = ClockStart
    /\ pc = "Caller" /\ currentBlock = NoBlock /\ fromBlock = NoBlock
    /\ context = NoContext /\ events = <<>> /\ evIdx = 0 /\ stats = NoStats
    /\ outcome = "pending" /\ exitCode = NoExit
    /\ spc = "sendMessage"
    /\ call \in PublishCalls
    /\ payload = NoPayload /\ amzDate = NoDate
    /\ authorizationHeader = NoAuth /\ idx = 0 /\ sqsResult = "pending"
    /\ posts = 0 /\ threw = 0 /\ lastPost = NoPost
    /\ headRead = FALSE /\ lastQuery = NoQuery /\ failStreak = 0
    /\ attempted = <<>> /\ lastEvent = NoEvent
    /\ headAtStart = NoBlock /\ prevTo = NoBlock
    /\ covered = NotCovered /\ handed = <<>>

NextPublish == SendMessage \/ Fetch \/ RetryNext \/ Tick

SpecPublish == InitPublish /\ [][NextPublish]_vars

(* ============================== claims ================================ *)

\* The last log query failed and has not been answered since.
RetryPending == lastQuery.fromBlock # NoBlock /\ ~lastQuery.ok

\* C1 (state part): when the log query of a window has thrown, the next
\* log query is issued for the same fromBlock and the same toBlock.
C1_RetrySameRange ==
    (pc = "Query" /\ RetryPending) =>
        /\ context.fromBlock = lastQuery.fromBlock
        /\ context.toBlock = lastQuery.toBlock

\* C1 (step part): once set, fromBlock changes only in a step taken after
\* the log query issued for that very fromBlock has answered.
C1_AdvanceOnlyAfterSuccess ==
    (fromBlock # NoBlock /\ fromBlock' # fromBlock) =>
        (lastQuery.ok /\ lastQuery.fromBlock = fromBlock)

\* C1: a window-level failure does not advance fromBlock: the query after a
\* failed query has the same fromBlock and toBlock, and fromBlock changes
\* only after a log query for that fromBlock has succeeded.
C1_FailedWindowNotAdvanced ==
    [](C1_RetrySameRange) /\ [][C1_AdvanceOnlyAfterSuccess]_vars

\* C1 witness: a window other than the first is about to be queried again
\* after its query failed.
C1_Witness ==
    /\ pc = "Query" /\ RetryPending /\ failStreak >= 1
    /\ context.fromBlock > START_BLOCK
    /\ context.fromBlock = lastQuery.fromBlock

\* C2: an event whose delivery threw on every attempt of sendMessageToSQS is
\* counted in failedCount and not in processedCount.
C2_ExhaustedDeliveryCountedFailed ==
    (lastEvent.handled /\ lastEvent.exhausted) => lastEvent.countedAs = "failed"

\* C3: the X-Amz-Date and Authorization headers of every attempt are
\* computed from the wall-clock time at that attempt.
C3_HeadersFreshPerAttempt ==
    lastPost.sent =>
        /\ lastPost.xAmzDate = AmzDate(lastPost.at)
        /\ lastPost.authorization =
               AuthorizationFor(sqsConfig(awsConfig), payload, AmzDate(lastPost.at))

\* C4: sendMessage returns normally for every input and every behaviour of
\* the delivery: no exception leaves it.
C4_SendMessageNeverThrows == spc # "threw"

\* C5: when a window's processing is complete, processedCount + failedCount
\* equals eventCount, the number of logs its query returned.
C5_CountsAddUp ==
    pc = "Pacing" =>
        /\ context.eventCount = Len(events)
        /\ context.processedCount + context.failedCount = context.eventCount

\* C5 witness: a completed window with both succeeded and failed events.
C5_Witness ==
    pc = "Pacing" /\ context.processedCount > 0 /\ context.failedCount > 0

\* C6: a failing event does not stop the window: no log is attempted twice,
\* a window whose query answered is not queried again, and a window that
\* had failures ends with every log attempted exactly once and with
\* fromBlock = toBlock + 1.
C6_EventFailureIsolated ==
    /\ \A j \in 1..Len(attempted) : attempted[j] <= 1
    /\ pc = "Query" =>
           ~(lastQuery.ok /\ lastQuery.fromBlock = context.fromBlock)
    /\ (context.failedCount > 0 /\ pc \in { "Events", "AwaitSend" }) =>
           /\ lastQuery.ok /\ lastQuery.fromBlock = context.fromBlock
           /\ \A j \in 1..Len(events) : j < evIdx => attempted[j] = 1
    /\ (context.failedCount > 0 /\ pc = "Pacing") =>
           /\ Len(attempted) = Len(events)
           /\ \A j \in 1..Len(events) : attempted[j] = 1
           /\ fromBlock = context.toBlock + 1

\* C6 witness: a completed window in which an event failed and a later
\* event was still processed.
C6_Witness ==
    /\ pc = "Pacing" /\ Len(events) >= 2
    /\ context.failedCount >= 1 /\ context.processedCount >= 1
    /\ lastEvent.countedAs = "processed"

\* The ways a configuration is invalid, as the claim lists them.
ConfigInvalid ==
    \/ ~awsConfig.hasAWS
    \/ awsConfig.REGION = ""
    \/ awsConfig.REGION \notin VALID_AWS_REGIONS
    \/ ~awsConfig.hasCREDENTIALS
    \/ awsConfig.ACCESS_KEY_ID = "" \/ awsConfig.SECRET_ACCESS_KEY = ""
    \/ awsConfig.SQS_QUEUE_URL = ""
    \/ ~queueReachable

\* C7: with an invalid configuration the chain head is never read, no log
\* query is issued and no message is published.
C7_ConfigGate ==
    ConfigInvalid =>
        /\ ~headRead
        /\ lastQuery = NoQuery
        /\ spc = "idle" /\ call = NoCall /\ posts = 0 /\ ~lastPost.sent
        /\ events = <<>> /\ ~lastEvent.handled
        /\ pc \in { "Load", "Start", "Crashed", "ConfigStopped" }

\* C7 witness: the scan stopped on a region outside the allow-list.
C7_Witness ==
    /\ pc = "ConfigStopped" /\ exitCode # NoExit
    /\ awsConfig.REGION # "" /\ awsConfig.REGION \notin VALID_AWS_REGIONS

\* C8: when validateAwsConfig fails, the run ends in a rejected promise and
\* exit status 1.
C8_InvalidConfigExitsNonZero ==
    (pc = "ConfigStopped" /\ exitCode # NoExit) =>
        (outcome = "rejected" /\ exitCode = 1)

\* A call of sendMessageToSQS has ended.
CallEnded == spc = "returned"

\* C9: one call of sendMessageToSQS makes at most MAX_TRIES POSTs; it returns
\* the body of the first attempt that decodes, whatever the status, and
\* attempts nothing after it; it returns nothing exactly when MAX_TRIES
\* attempts threw; it does not throw.
C9_BoundedRetry ==
    /\ posts <= MAX_TRIES
    /\ threw <= posts /\ posts <= threw + 1
    /\ spc \in { "fetch", "retryWait" } => (posts = threw /\ sqsResult = "pending")
    /\ CallEnded =>
           /\ sqsResult = "nothing" <=> threw = MAX_TRIES
           /\ sqsResult # "nothing" =>
                  /\ Decoded(sqsResult)
                  /\ posts = threw + 1
                  /\ lastPost.attempt = threw
           /\ sqsResult = "nothing" => posts = threw

\* C9 witness: a call that returned an HTTP 500 body on its second attempt,
\* with an attempt to spare.
C9_Witness ==
    /\ spc = "returned" /\ sqsResult = "http500"
    /\ threw = 1 /\ posts = 2 /\ MAX_TRIES = 3

\* C10: while every log query of the current window has failed, the scan is
\* neither completed nor faulted, fromBlock has not moved, and the loop can
\* query again, however many queries have failed.
C10_StuckWindowRetried ==
    failStreak > 0 =>
        /\ pc \in { "LoopHead", "Query" }
        /\ outcome = "pending" /\ exitCode = NoExit
        /\ fromBlock = lastQuery.fromBlock
        /\ fromBlock < currentBlock
        /\ pc = "LoopHead" => ENABLED BeginWindow
        /\ pc = "Query" => ENABLED QueryFails

\* C10 witness: the query of one window has failed MaxRetries times and the
\* window is about to be queried again.
C10_Witness ==
    /\ pc = "Query" /\ failStreak = MaxRetries
    /\ context.fromBlock = lastQuery.fromBlock

\* A window is in use: its query is issued, its logs are processed, or its
\* processing is complete.
InWindow == pc \in { "Query", "Events", "AwaitSend", "Pacing" }

\* C11: toBlock = min(fromBlock + windowSize, chainHead), and the iteration
\* after a processed window starts at toBlock + 1; from 100 with size 50 the
\* head 120 gives the single window [100,120], the head 500 gives [100,150]
\* and then fromBlock = 151.
C11_WindowAdvance ==
    /\ InWindow =>
           /\ context.toBlock <= context.fromBlock + SCAN_WITH_SPACE_BLOCK
           /\ context.toBlock <= currentBlock
           /\ \/ context.toBlock = context.fromBlock + SCAN_WITH_SPACE_BLOCK
              \/ context.toBlock = currentBlock
    /\ pc = "Pacing" => fromBlock = context.toBlock + 1
    /\ (pc = "Query" /\ prevTo # NoBlock) => context.fromBlock = prevTo + 1
    /\ ToBlock(100, 50, 120) = 120 /\ ~(AfterWindow(120) < 120)
    /\ ToBlock(100, 50, 500) = 150 /\ AfterWindow(150) = 151

\* C11 witness: a second window, cut short by the chain height.
C11_Witness ==
    /\ pc = "Query" /\ prevTo # NoBlock
    /\ context.fromBlock = prevTo + 1
    /\ context.toBlock = currentBlock
    /\ context.toBlock < context.fromBlock + SCAN_WITH_SPACE_BLOCK

\* C12: the logs of a window are handed on in the order the query returned
\* them, one at a time: a log is started only when every log before it has
\* ended; and each window starts above the toBlock of the window processed
\* before it.
C12_Ordering ==
    /\ (pc \in { "Query", "Events", "AwaitSend" } /\ prevTo # NoBlock) =>
           context.fromBlock > prevTo
    /\ pc \in { "Events", "AwaitSend", "Pacing" } =>
           /\ Len(attempted) = Len(events)
           /\ \A j \in 1..Len(events) :
                  attempted[j] = IF j < evIdx \/ (j = evIdx /\ pc = "AwaitSend")
                                   THEN 1 ELSE 0
    /\ spc # "idle" =>
           /\ pc = "AwaitSend" /\ evIdx \in 1..Len(events)
           /\ call.logIndex = events[evIdx].logIndex
           /\ call.blockNumber = events[evIdx].blockNumber
           /\ call.transactionHash = events[evIdx].transactionHash

\* C12 witness: the second log of a later window is being published.
C12_Witness ==
    /\ pc = "AwaitSend" /\ spc = "fetch" /\ evIdx = 2
    /\ prevTo # NoBlock /\ context.fromBlock > prevTo

\* C13: the chain height used by the loop is the one read before the first
\* window, whatever the chain does since: currentBlock keeps that value, no
\* window reaches above it, a window starts only below it, and the scan
\* completes exactly when fromBlock has reached it.
C13_HeadCapturedOnce ==
    headAtStart # NoBlock =>
        /\ currentBlock = headAtStart
        /\ InWindow =>
               /\ context.fromBlock < headAtStart
               /\ context.toBlock <= headAtStart
        /\ pc = "Completed" => fromBlock >= headAtStart

\* C13 witness: the chain has grown since the height was read, and the
\* window being queried still ends at the height read.
C13_Witness ==
    /\ pc = "Query" /\ headAtStart # NoBlock
    /\ chainHead > headAtStart
    /\ context.toBlock = headAtStart
    /\ context.fromBlock + SCAN_WITH_SPACE_BLOCK > headAtStart

\* C14: for a completed window with eventCount > 0 the two rates, each with
\* two decimals, add up to 100.00 (10000 hundredths of a percent).
C14_RatesAddUp ==
    (pc = "Pacing" /\ context.eventCount > 0
       /\ context.processedCount + context.failedCount = context.eventCount) =>
        stats.successRate + stats.failureRate = 10000

\* C15: once configuration has passed, an exception that escapes the
\* handlers of the loop (the chain height cannot be read) leaves
\* scanTokenMigratedEvents as a rejection: the process can only end with
\* status 1, and from then on no window is opened, no query is made and
\* nothing is published.
C15_Escaped ==
    pc = "Faulted" =>
        /\ outcome = "rejected"
        /\ exitCode \in { NoExit, 1 }
        /\ exitCode = NoExit => ENABLED MainExit
        /\ ~ ENABLED (BeginWindow \/ QueryOk \/ QueryFails \/ ProcessEvent
                        \/ FinishWindow \/ SendMessage \/ Fetch \/ Complete)
        /\ context = NoContext /\ lastQuery = NoQuery /\ posts = 0
        /\ ~ ConfigInvalid
C15_TopLevelRethrown ==
    /\ [] C15_Escaped
    /\ [][ pc = "Faulted" =>
             /\ pc' = "Faulted" /\ outcome' = outcome
             /\ <<context, lastQuery, posts, fromBlock>>' =
                    <<context, lastQuery, posts, fromBlock>> ]_vars
C15_Witness == pc = "Faulted" /\ exitCode = 1 /\ headRead /\ ~ ConfigInvalid

\* What a sent Authorization header was computed over: the string to sign
\* under its signature, and the canonical request digested in that string.
SignedString(auth) == auth.Signature[3]
SignedCanonicalRequest(auth) == SignedString(auth)[4][2]

\* C16: every request sent carries the body whose SHA-256 is in the
\* canonical request under its signature, and the X-Amz-Date that was
\* signed (in the string to sign and in the canonical headers).
C16_SignedWhatIsSent ==
    lastPost.sent =>
        /\ SignedCanonicalRequest(lastPost.authorization)[6] = Sha256Hex(lastPost.body)
        /\ SignedString(lastPost.authorization)[2] = lastPost.xAmzDate
        /\ SignedCanonicalRequest(lastPost.authorization)[4][6] = lastPost.xAmzDate
        /\ lastPost.body = JsonStringify(Payload(call))
C16_Witness ==
    /\ lastPost.sent /\ lastPost.attempt >= 1
    /\ AmzDate(lastPost.at) # lastPost.xAmzDate
    /\ SignedString(lastPost.authorization)[2] = lastPost.xAmzDate

\* C17: the payload of a publish call has MessageGroupId and
\* MessageDeduplicationId both equal to txHash "/" txIndex "/" logIndex of
\* the call; any call with the same three values, whatever its event type,
\* data and block number, gets the same two identifiers; and the payload
\* with these identifiers is what is sent.
C17_EnvelopeIds ==
    payload # NoPayload =>
        /\ payload.MessageGroupId =
               <<call.transactionHash, "/", call.transactionIndex, "/", call.logIndex>>
        /\ payload.MessageDeduplicationId = payload.MessageGroupId
        /\ \A c \in PublishCalls :
               ( /\ c.transactionHash = call.transactionHash
                 /\ c.transactionIndex = call.transactionIndex
                 /\ c.logIndex = call.logIndex ) =>
                   /\ Payload(c).MessageGroupId = payload.MessageGroupId
                   /\ Payload(c).MessageDeduplicationId = payload.MessageDeduplicationId
        /\ lastPost.sent => lastPost.body = JsonStringify(payload)
C17_Witness ==
    /\ spc = "returned" /\ lastPost.sent
    /\ call.messageEventType = "Trade" /\ call.blockNumber > 0
    /\ payload.MessageGroupId = <<1, "/", 1, "/", 0>>
    /\ payload.MessageDeduplicationId = <<1, "/", 1, "/", 0>>

\* C18: wherever a window is used (its query is issued or fails, its logs
\* are processed, its statistics are computed) fromBlock <= toBlock, the
\* three counts are not negative and processedCount + failedCount is at
\* most eventCount; SCAN_WITH_SPACE_BLOCK is not negative.
C18_ScanWindow ==
    /\ (SCAN_WITH_SPACE_BLOCK >= 0 /\ (InWindow \/ ENABLED QueryFails)) =>
           /\ context.fromBlock <= context.toBlock
           /\ context.eventCount >= 0
           /\ context.processedCount >= 0
           /\ context.failedCount >= 0
           /\ context.processedCount + context.failedCount <= context.eventCount
    /\ pc = "Pacing" => stats.totalEvents = context.eventCount
C18_Witness ==
    /\ pc = "Events" /\ evIdx = 2 /\ context.eventCount = 2
    /\ context.failedCount = 1 /\ context.processedCount = 0
    /\ context.fromBlock = context.toBlock /\ context.fromBlock > 0

\* C20: the statistics of a window whose query returned no log report
\* "0.00%" for both rates, and calculateProcessingStats gives "0.00%" twice
\* for any context with eventCount 0.
C20_EmptyWindowRates ==
    /\ (pc = "Pacing" /\ context.eventCount = 0) =>
           /\ stats.successRate = 0 /\ stats.failureRate = 0
           /\ stats.totalEvents = 0
    /\ \A p \in 0..MaxEvents : \A f \in 0..MaxEvents :
           LET st == calculateProcessingStats(
                         [ fromBlock |-> 0, toBlock |-> 0, eventCount |-> 0,
                           processedCount |-> p, failedCount |-> f ])
           IN  st.successRate = 0 /\ st.failureRate = 0
C20_Witness ==
    /\ pc = "Pacing" /\ context.eventCount = 0 /\ events = <<>>
    /\ stats.successRate = 0 /\ stats.failureRate = 0
    /\ stats = calculateProcessingStats(context)

\* C21: when the scan is complete and START_BLOCK is at most the chain
\* height that was read, every block from START_BLOCK up to that height
\* lies in exactly one window whose log query answered.
C21_AllBlocksScanned ==
    (pc = "Completed" /\ START_BLOCK <= currentBlock) =>
        \A b \in START_BLOCK..currentBlock : covered[b] = 1

\* C22: no log is passed to sendMessage twice in one run.  A log is known
\* by its block and its position, and a query answers with logs of its own
\* range, so it is enough that (a) no block lies in the range of two
\* answered queries, (b) within a window each log is handed to sendMessage
\* at most once, the call in flight being that one, and (c) a window can
\* fail only while none of its logs has been handed on.
C22_PublishedOnce ==
    /\ \A b \in DOMAIN covered : covered[b] <= 1
    /\ \A j \in 1..Len(handed) : handed[j] <= 1 /\ handed[j] <= attempted[j]
    /\ pc \in { "Events", "AwaitSend", "Pacing" } =>
           /\ Len(handed) = Len(events)
           /\ \A j \in 1..Len(events) :
                  /\ events[j].blockNumber >= context.fromBlock
                  /\ events[j].blockNumber <= context.toBlock
                  /\ covered[events[j].blockNumber] = 1
                  /\ \A k \in 1..Len(events) :
                         ( /\ events[k].blockNumber = events[j].blockNumber
                           /\ events[k].transactionIndex = events[j].transactionIndex
                           /\ events[k].logIndex = events[j].logIndex ) => k = j
    /\ spc # "idle" => handed[evIdx] = 1
    /\ ENABLED QueryFails => (handed = <<>> /\ spc = "idle" /\ posts = 0)
C22_Witness ==
    /\ pc = "AwaitSend" /\ spc = "fetch" /\ evIdx = 2 /\ handed = <<0, 1>>
    /\ lastEvent.failure = "no_args"
    /\ prevTo # NoBlock /\ covered[prevTo] = 1

\* C23: once the configuration has passed and the chain height is read,
\* if every window's log query answers in the end, the scan reaches
\* Completed with fromBlock >= currentBlock, however many events and
\* deliveries fail on the way.
C23_Terminates ==
    (pc = "LoopHead" /\ SCAN_WITH_SPACE_BLOCK >= 0)
        ~> (pc = "Completed" /\ fromBlock >= currentBlock)
C23_Witness ==
    /\ pc = "Completed" /\ fromBlock >= currentBlock /\ ~ ConfigInvalid
    /\ SCAN_WITH_SPACE_BLOCK = 0 /\ prevTo # NoBlock /\ prevTo > START_BLOCK

====
